---- MODULE Spec2Model ----
(***************************************************************************)
(* A model of lib/node_cache.js: the NodeCache class, an in-process        *)
(* key/value cache with per-entry TTL, statistics and notifications.       *)
(*                                                                         *)
(* JavaScript values are records.  A cached value is [type, repr, n]:      *)
(* `type` is the category the size estimation dispatches on, `repr` the    *)
(* characters of a string (or the JSON text of any other value) and `n`    *)
(* the element count of an array or field count of an object.  A key is    *)
(* [type, s, n]: the characters of a string key or the integer of a        *)
(* number key.  The container `this.data` is a plain object, so a key      *)
(* reaches it as a property name (ToPropertyKey) and a lookup that finds   *)
(* no own property falls through to Object.prototype.                      *)
(***************************************************************************)
EXTENDS Integers, Sequences, FiniteSets, TLC

VARIABLES
    data,          \* this.data: own properties, property name -> [t, v]
    stats,         \* this.stats: hits, misses, keys, ksize, vsize
    options,       \* this.options, fixed at construction
    checkTimeout,  \* this.checkTimeout: the sweep timer handle
    now,           \* Date.now(), in milliseconds
    ret,           \* how the last call ended: what it returned or threw
    events,        \* the notifications the last call emitted, in order
    lastSet,       \* history: per property, what the last set wrote
    statsRef       \* the record a getStats() gave the caller: "none", "live"
                   \* (it is this.stats) or "detached" (this.stats was replaced)

vars == <<data, stats, options, checkTimeout, now, ret, events, lastSet, statsRef>>

-----------------------------------------------------------------------------
(* Bounds of the model.                                                    *)

\* Date.now() at construction (ms).
Epoch == 2000
\* The clock advances in steps of TickMs, at most MaxTicks times.
MaxTicks == 3
\* hits + misses is capped: a call that would pass the cap is not taken.
MaxCount == 2
\* At most MaxEntries own properties are created in the container.
MaxEntries == 2

\* stats.vsize is not driven below -MaxDebt.
MaxDebt == 8

TickMs == 500

-----------------------------------------------------------------------------
(* JavaScript values.                                                      *)

Str(chars) == [type |-> "string", repr |-> chars, n |-> 0]
Undefined == [type |-> "undefined", repr |-> "", n |-> 0]
Null == [type |-> "null", repr |-> "null", n |-> 0]
True == [type |-> "boolean", repr |-> "true", n |-> 0]
False == [type |-> "boolean", repr |-> "false", n |-> 0]
Num7 == [type |-> "number", repr |-> "7", n |-> 0]
Arr12 == [type |-> "array", repr |-> "[1,2]", n |-> 2]
ObjA1 == [type |-> "object", repr |-> "{\"a\":1}", n |-> 1]

\* value == null (loose): null or undefined
IsNullish(value) == value.type \in {"null", "undefined"}

\* JSON.stringify( value ) of a non-string: undefined for undefined, else the text
JSONstringify(value) ==
    IF value.type = "undefined" THEN Undefined ELSE Str(value.repr)

\* lodash isString / isArray / isNumber / isObject / size, string length
isString(value) == value.type = "string"
isArray(value) == value.type = "array"
isNumber(value) == value.type = "number"
isObject(value) == value.type \in {"object", "array"}
size(value) == value.n
StrLength(value) == Len(value.repr)

\* clone( value ): a deep copy, structurally the value itself
clone(value) == value

-----------------------------------------------------------------------------
(* Keys.                                                                   *)

StrKey(chars) == [type |-> "string", s |-> chars, n |-> 0]
NumKey(i) == [type |-> "number", s |-> "", n |-> i]
NullKey == [type |-> "null", s |-> "", n |-> 0]
UndefinedKey == [type |-> "undefined", s |-> "", n |-> 0]
TrueKey == [type |-> "boolean", s |-> "true", n |-> 0]
ObjectKey == [type |-> "object", s |-> "", n |-> 0]

\* typeof key
typeof(key) == IF key.type = "null" THEN "object" ELSE key.type

\* !key is false: the key is truthy
Truthy(key) ==
    CASE key.type = "string" -> key.s # ""
      [] key.type = "number" -> key.n # 0
      [] key.type = "object" -> TRUE
      [] key.type = "boolean" -> key.s = "true"
      [] OTHER -> FALSE

Digits == <<"0", "1", "2", "3", "4", "5", "6", "7", "8", "9">>

RECURSIVE NumberToString(_)
NumberToString(i) ==
    IF i < 10 THEN Digits[i + 1]
    ELSE NumberToString(i \div 10) \o Digits[(i % 10) + 1]

\* this.data[ key ]: the property name the key is converted to
ToPropertyKey(key) ==
    IF key.type = "string" THEN key.s ELSE NumberToString(key.n)

\* Names every plain object inherits from Object.prototype (the ones drawn here).
ObjectPrototype == {"constructor"}

\* this.data[ key ]: an own property, else what Object.prototype holds under
\* that name (a function: truthy, with no `t` and no `v`), else undefined
Lookup(d, key) ==
    LET p == ToPropertyKey(key) IN
    IF p \in DOMAIN d THEN [kind |-> "own", hasT |-> TRUE, t |-> d[p].t, v |-> d[p].v]
    ELSE IF p \in ObjectPrototype
         THEN [kind |-> "inherited", hasT |-> FALSE, t |-> 0, v |-> Undefined]
         ELSE [kind |-> "undefined", hasT |-> FALSE, t |-> 0, v |-> Undefined]

\* this.data[ key ] = entry
Store(d, key, entry) ==
    LET p == ToPropertyKey(key) IN
    [q \in DOMAIN d \cup {p} |-> IF q = p THEN entry ELSE d[q]]

\* delete this.data[ key ]
Delete(d, key) ==
    LET p == ToPropertyKey(key) IN [q \in DOMAIN d \ {p} |-> d[q]]

-----------------------------------------------------------------------------
(* Numbers that may be NaN (stats.ksize) or undefined (a ttl argument).    *)

NaN == [nan |-> TRUE, val |-> 0]
Finite(i) == [nan |-> FALSE, val |-> i]
Plus(a, b) == IF a.nan \/ b.nan THEN NaN ELSE Finite(a.val + b.val)
Minus(a, b) == IF a.nan \/ b.nan THEN NaN ELSE Finite(a.val - b.val)

NoNumber == [def |-> FALSE, n |-> 0]
Number(i) == [def |-> TRUE, n |-> i]

-----------------------------------------------------------------------------
(* Errors and the ways a call ends.  A cache `c` is [data, stats, events]. *)

NoError == [code |-> "", type |-> "", key |-> UndefinedKey]
\* _error( "EKEYTYPE", { type: typeof key } )
EKEYTYPE(key) == [code |-> "EKEYTYPE", type |-> typeof(key), key |-> UndefinedKey]
\* _error( "ENOTFOUND", { key } )
ENOTFOUND(key) == [code |-> "ENOTFOUND", type |-> "", key |-> key]
\* _error( "EKEYSTYPE" )
EKEYSTYPE == [code |-> "EKEYSTYPE", type |-> "", key |-> UndefinedKey]
\* a TypeError of the runtime (a property read of undefined)
TypeError == [code |-> "TypeError", type |-> "", key |-> UndefinedKey]

\* what a call hands back is a record in every case: a value (get), True or False
\* (set, ttl), a number or undefined (getTtl, del), [map |-> the mapping] (mget)
Return(c, val) == [c |-> c, status |-> "return", val |-> val, err |-> NoError]
Throw(c, err) == [c |-> c, status |-> "throw", val |-> Undefined, err |-> err]

\* this.emit( name, key, value ): the listener runs at once, and sees the cache as
\* it is then (held: the key is still an own property; keys: stats.keys)
emit(c, name, key, value) ==
    [c EXCEPT !.events = Append(@,
        [name |-> name, key |-> key, value |-> value,
         held |-> ToPropertyKey(key) \in DOMAIN c.data, keys |-> c.stats.keys])]

-----------------------------------------------------------------------------
(* Internal methods.                                                       *)

\* a cache that also takes booleans for keys
validKeyTypesWithBoolean == {"string", "number", "boolean"}

validKeyTypes == {"string", "number"}

_isInvalidKey(key) == typeof(key) \notin validKeyTypes

\* the timestamp an entry written now with `ttl` (seconds, or undefined) gets
ttlMultiplicator == 1000

\* a lifetime that takes the ttl for milliseconds
LivetimeInMilliseconds(ttl) ==
    IF ttl.def /\ ttl.n = 0 THEN 0
    ELSE IF ttl.def THEN now + ttl.n
    ELSE IF options.stdTTL = 0 THEN options.stdTTL
    ELSE now + options.stdTTL

Livetime(ttl) ==
    IF ttl.def /\ ttl.n = 0 THEN 0
    ELSE IF ttl.def THEN now + (ttl.n * ttlMultiplicator)
    ELSE IF options.stdTTL = 0 THEN options.stdTTL
    ELSE now + (options.stdTTL * ttlMultiplicator)

_wrap(value, ttl, asClone) ==
    [t |-> Livetime(ttl),
     v |-> IF asClone /\ options.useClones THEN clone(value) ELSE value]

_unwrap(entry, asClone) ==
    IF ~IsNullish(entry.v)
    THEN (IF asClone /\ options.useClones THEN clone(entry.v) ELSE entry.v)
    ELSE Null

\* key.length: the length of a string, undefined (NaN in arithmetic) of a number
_getKeyLength(key) ==
    IF key.type = "string" THEN Finite(Len(key.s)) ELSE NaN

\* [threw, n]: the estimated size, or the TypeError of reading `.length` of the
\* undefined that JSON.stringify gives for undefined
_getValLength(value) ==
    IF isString(value) THEN [threw |-> FALSE, n |-> StrLength(value)]
    ELSE IF options.forceString
         THEN (IF JSONstringify(value).type = "undefined"
               THEN [threw |-> TRUE, n |-> 0]
               ELSE [threw |-> FALSE, n |-> StrLength(JSONstringify(value))])
    ELSE IF isArray(value) THEN [threw |-> FALSE, n |-> options.arrayValueSize * size(value)]
    ELSE IF isNumber(value) THEN [threw |-> FALSE, n |-> 8]
    ELSE IF isObject(value) THEN [threw |-> FALSE, n |-> options.objectValueSize * size(value)]
    ELSE [threw |-> FALSE, n |-> 0]

-----------------------------------------------------------------------------
(* Public methods, as functions of the cache c = [data, stats, events].    *)

\* a del that validates every key of the batch before it removes any
RECURSIVE delFromValidated(_, _, _, _)
delFromValidated(c, keys, i, delCount) ==
    IF \E j \in i..Len(keys) : _isInvalidKey(keys[j])
    THEN Throw(c, EKEYTYPE(keys[CHOOSE j \in i..Len(keys) :
                    _isInvalidKey(keys[j]) /\ \A h \in i..(j - 1) : ~_isInvalidKey(keys[h])]))
    ELSE IF i > Len(keys) THEN Return(c, Number(delCount))
    ELSE LET key == keys[i]
             e == Lookup(c.data, key)
         IN
         IF e.kind # "undefined"
         THEN delFromValidated(
                emit([c EXCEPT !.stats.vsize = @ - _getValLength(_unwrap(e, FALSE)).n,
                               !.stats.ksize = Minus(@, _getKeyLength(key)),
                               !.stats.keys = @ - 1,
                               !.data = Delete(@, key)], "del", key, e.v),
                keys, i + 1, delCount + 1)
         ELSE delFromValidated([c EXCEPT !.stats.misses = @ + 1], keys, i + 1, delCount)

\* del( keys ): the loop over keys[i..], with the running delCount
RECURSIVE delFrom(_, _, _, _)
delFrom(c, keys, i, delCount) ==
    IF i > Len(keys) THEN Return(c, Number(delCount))
    ELSE LET key == keys[i]
             e == Lookup(c.data, key)
             vlen == _getValLength(_unwrap(e, FALSE))
         IN
         IF _isInvalidKey(key) THEN Throw(c, EKEYTYPE(key))
         ELSE IF e.kind # "undefined"
         THEN IF vlen.threw THEN Throw(c, TypeError)
              ELSE LET c1 == [c EXCEPT !.stats.vsize = @ - vlen.n,
                                       !.stats.ksize = Minus(@, _getKeyLength(key)),
                                       !.stats.keys = @ - 1,
                                       !.data = Delete(@, key)]
                   IN delFrom(emit(c1, "del", key, e.v), keys, i + 1, delCount + 1)
         ELSE delFrom([c EXCEPT !.stats.misses = @ + 1], keys, i + 1, delCount)

\* del( keys ) with an array; del( key ) is del( [ key ] )
del(c, keys) == delFrom(c, keys, 1, 0)

\* a freshness check that announces the expiry before it deletes
_checkExpiredFirst(c, key, e) ==
    IF e.hasT /\ e.t # 0 /\ e.t < now
    THEN [c |-> del(emit(c, "expired", key, _unwrap(e, TRUE)), <<key>>).c,
          fresh |-> FALSE]
    ELSE [c |-> c, fresh |-> TRUE]

\* a freshness check that trusts every entry
_checkTrusts(c, key, e) == [c |-> c, fresh |-> TRUE]

\* _check( key, data ): [c, fresh]
_check(c, key, e) ==
    IF e.hasT /\ e.t # 0 /\ e.t < now
    THEN [c |-> emit(del(c, <<key>>).c, "expired", key, _unwrap(e, TRUE)),
          fresh |-> FALSE]
    ELSE [c |-> c, fresh |-> TRUE]

\* (this.data[ key ] != null) && this._check( key, this.data[ key ] ): [c, fresh]
PresentAndFresh(c, key) ==
    LET e == Lookup(c.data, key) IN
    IF e.kind = "undefined" THEN [c |-> c, fresh |-> FALSE] ELSE _check(c, key, e)

get(c, key, errorOnMissing) ==
    IF _isInvalidKey(key) THEN Throw(c, EKEYTYPE(key))
    ELSE LET chk == PresentAndFresh(c, key) IN
         IF chk.fresh
         THEN Return([chk.c EXCEPT !.stats.hits = @ + 1],
                     _unwrap(Lookup(chk.c.data, key), TRUE))
         ELSE LET c1 == [chk.c EXCEPT !.stats.misses = @ + 1] IN
              IF options.errorOnMissing \/ errorOnMissing
              THEN Throw(c1, ENOTFOUND(key))
              ELSE Return(c1, Undefined)

\* mget( keys ): the loop over keys[i..], with the mapping oRet built so far
RECURSIVE mgetFrom(_, _, _, _)
mgetFrom(c, keys, i, oRet) ==
    IF i > Len(keys) THEN Return(c, [map |-> oRet])
    ELSE LET key == keys[i] IN
         IF _isInvalidKey(key) THEN Throw(c, EKEYTYPE(key))
         ELSE LET chk == PresentAndFresh(c, key) IN
              IF chk.fresh
              THEN mgetFrom([chk.c EXCEPT !.stats.hits = @ + 1], keys, i + 1,
                            Store(oRet, key, _unwrap(Lookup(chk.c.data, key), TRUE)))
              ELSE mgetFrom([chk.c EXCEPT !.stats.misses = @ + 1], keys, i + 1, oRet)

mget(c, keys) == mgetFrom(c, keys, 1, <<>>)

\* mget( key ) with something that is no array: the error is returned
mgetNoArray(c) == [c |-> c, status |-> "return", val |-> Undefined, err |-> EKEYSTYPE]

set(c, key, val, ttl) ==
    LET value == IF options.forceString /\ ~isString(val) THEN JSONstringify(val) ELSE val
        e == Lookup(c.data, key)
        existent == e.kind # "undefined"
        old == IF existent THEN _getValLength(_unwrap(e, FALSE))
                           ELSE [threw |-> FALSE, n |-> 0]
        c1 == [c EXCEPT !.stats.vsize = @ - old.n]
        c2 == [c1 EXCEPT !.data = Store(@, key, _wrap(value, ttl, TRUE))]
        vlen == _getValLength(value)
        c3 == [c2 EXCEPT !.stats.vsize = @ + vlen.n]
        c4 == IF existent THEN c3
              ELSE [c3 EXCEPT !.stats.ksize = Plus(@, _getKeyLength(key)),
                              !.stats.keys = @ + 1]
    IN
    IF _isInvalidKey(key) THEN Throw(c, EKEYTYPE(key))
    ELSE IF old.threw THEN Throw(c, TypeError)
    ELSE IF vlen.threw THEN Throw(c2, TypeError)
    ELSE Return(emit(c4, "set", key, value), True)

\* ttl( key, ttl ): arg is the number passed, or undefined
ttl(c, key, arg) ==
    LET t == IF ~arg.def \/ arg.n = 0 THEN Number(options.stdTTL) ELSE arg
        chk == PresentAndFresh(c, key)
        e == Lookup(chk.c.data, key)
    IN
    IF ~Truthy(key) THEN Return(c, False)
    ELSE IF _isInvalidKey(key) THEN Throw(c, EKEYTYPE(key))
    ELSE IF chk.fresh
         THEN IF t.n >= 0
              THEN Return([chk.c EXCEPT !.data = Store(@, key, _wrap(e.v, t, FALSE))], True)
              ELSE Return(del(chk.c, <<key>>).c, True)
         ELSE Return(chk.c, False)

\* getTtl( key ): the entry's t, or undefined
getTtl(c, key) ==
    LET chk == PresentAndFresh(c, key)
        e == Lookup(chk.c.data, key)
    IN
    IF ~Truthy(key) THEN Return(c, NoNumber)
    ELSE IF _isInvalidKey(key) THEN Throw(c, EKEYTYPE(key))
    ELSE IF chk.fresh
         THEN Return(chk.c, IF e.hasT THEN Number(e.t) ELSE NoNumber)
         ELSE Return(chk.c, NoNumber)

\* a close that leaves the timer running
_keepCheckPeriod(timeout) == timeout

\* _killCheckPeriod(): clearTimeout( this.checkTimeout ) when there is a handle
_killCheckPeriod(timeout) ==
    IF timeout.handle THEN [timeout EXCEPT !.pending = FALSE] ELSE timeout

\* _checkData( startPeriod ) called on the cache itself: the freshness check on
\* every own property, then the timer
RECURSIVE checkAll(_, _)
checkAll(c, props) ==
    IF props = {} THEN c
    ELSE LET p == CHOOSE q \in props : TRUE IN
         checkAll(IF p \in DOMAIN c.data
                  THEN _check(c, StrKey(p), Lookup(c.data, StrKey(p))).c
                  ELSE c,
                  props \ {p})

\* a housekeeping run that never sets the timer
_checkDataNoTimer(c, timeout, startPeriod) ==
    [c |-> checkAll(c, DOMAIN c.data), timeout |-> timeout]

_checkData(c, timeout, startPeriod) ==
    [c |-> checkAll(c, DOMAIN c.data),
     timeout |-> IF startPeriod /\ options.checkperiod > 0
                 THEN [handle |-> TRUE, pending |-> TRUE,
                       due |-> now + (options.checkperiod * 1000)]
                 ELSE timeout]

\* constructor: the statistics container
ZeroStats == [hits |-> 0, misses |-> 0, keys |-> 0, ksize |-> Finite(0), vsize |-> 0]

\* constructor: the module options (defaults), overridden by what is passed
DefaultOptions ==
    [forceString |-> FALSE, objectValueSize |-> 80, arrayValueSize |-> 40,
     stdTTL |-> 0, checkperiod |-> 600, useClones |-> TRUE, errorOnMissing |-> FALSE]

NoTimeout == [handle |-> FALSE, pending |-> FALSE, due |-> 0]
EmptyCache == [data |-> <<>>, stats |-> ZeroStats, events |-> <<>>]
NoCall == [op |-> "", status |-> "", val |-> Undefined, err |-> NoError]

-----------------------------------------------------------------------------
(* The state machine.                                                      *)

\* new NodeCache( opts ) for some opts of Opts, at time Epoch
InitOver(Opts) ==
    /\ options \in Opts
    /\ now = Epoch
    /\ data = <<>>
    /\ stats = ZeroStats
    /\ checkTimeout = _checkData(EmptyCache, NoTimeout, TRUE).timeout
    /\ ret = NoCall
    /\ events = <<>>
    /\ lastSet = <<>>
    /\ statsRef = "none"

\* the cache a call starts from: nothing emitted yet
Cache == [data |-> data, stats |-> stats, events |-> <<>>]

\* the counters and the container stay within the bounds of the model
WithinBounds(c) ==
    /\ c.stats.hits + c.stats.misses <= MaxCount
    /\ c.stats.keys >= 0 - MaxCount
    /\ c.stats.vsize >= 0 - MaxDebt
    /\ Cardinality(DOMAIN c.data) <= MaxEntries

\* no call has just ended: the caller is free to make the next one
Idle == ret.op = ""

\* a call ended as r: the cache it leaves and what the caller saw
Ends(op, r) ==
    /\ Idle
    /\ WithinBounds(r.c)
    /\ data' = r.c.data
    /\ stats' = r.c.stats
    /\ events' = r.c.events
    /\ ret' = [op |-> op, status |-> r.status, val |-> r.val, err |-> r.err]

\* the keys of an array that a loop reaches: those before the first invalid one
Reached(keys) ==
    {i \in 1..Len(keys) : \A j \in 1..i : ~_isInvalidKey(keys[j])}

PropsOf(keys) == {ToPropertyKey(keys[i]) : i \in Reached(keys)}

\* lastSet, the history of writes: per property, the value and the expiry of the
\* last set( key, value, ttl ) with ttl >= 0 that no del, ttl or flushAll on the
\* key followed (exp: 0 for ttl 0, else the time of the call + ttl seconds), and
\* whether a get (got), or a get, mget or getTtl (read), of the key has been
\* called after exp.
Forget(h, props) == [q \in DOMAIN h \ props |-> h[q]]

Expired(h, p) == p \in DOMAIN h /\ h[p].exp # 0 /\ h[p].exp < now

Reading(h, props, byGet) ==
    [q \in DOMAIN h |->
        IF q \in props /\ Expired(h, q)
        THEN [h[q] EXCEPT !.read = TRUE, !.got = @ \/ byGet]
        ELSE h[q]]

Set(key, val, arg) ==
    LET r == set(Cache, key, val, arg) IN
    /\ Ends("set", r)
    /\ lastSet' = IF _isInvalidKey(key) THEN lastSet
                  ELSE IF r.status = "throw" THEN Forget(lastSet, {ToPropertyKey(key)})
                  ELSE IF ~(arg.def /\ arg.n >= 0) THEN Forget(lastSet, {ToPropertyKey(key)})
                  ELSE Store(lastSet, key,
                             [v |-> val,
                              exp |-> IF arg.n = 0 THEN 0 ELSE now + (arg.n * 1000),
                              got |-> FALSE, read |-> FALSE])
    /\ UNCHANGED <<options, checkTimeout, now, statsRef>>

Get(key, errorOnMissing) ==
    /\ Ends("get", get(Cache, key, errorOnMissing))
    /\ lastSet' = Reading(lastSet, PropsOf(<<key>>), TRUE)
    /\ UNCHANGED <<options, checkTimeout, now, statsRef>>

MGet(keys) ==
    /\ Ends("mget", mget(Cache, keys))
    /\ lastSet' = Reading(lastSet, PropsOf(keys), FALSE)
    /\ UNCHANGED <<options, checkTimeout, now, statsRef>>

MGetNoArray ==
    /\ Ends("mget", mgetNoArray(Cache))
    /\ UNCHANGED <<options, checkTimeout, now, lastSet, statsRef>>

Del(keys) ==
    /\ Ends("del", del(Cache, keys))
    /\ lastSet' = Forget(lastSet, PropsOf(keys))
    /\ UNCHANGED <<options, checkTimeout, now, statsRef>>

Ttl(key, arg) ==
    /\ Ends("ttl", ttl(Cache, key, arg))
    /\ lastSet' = IF _isInvalidKey(key) THEN lastSet
                  ELSE Forget(lastSet, {ToPropertyKey(key)})
    /\ UNCHANGED <<options, checkTimeout, now, statsRef>>

GetTtl(key) ==
    /\ Ends("getTtl", getTtl(Cache, key))
    /\ lastSet' = Reading(lastSet, PropsOf(<<key>>), FALSE)
    /\ UNCHANGED <<options, checkTimeout, now, statsRef>>

\* flushAll( _startPeriod )
FlushAll(startPeriod) ==
    LET r == _checkData(EmptyCache, _killCheckPeriod(checkTimeout), startPeriod) IN
    /\ Ends("flushAll", Return(emit(r.c, "flush", UndefinedKey, Undefined), Undefined))
    /\ checkTimeout' = r.timeout
    /\ lastSet' = <<>>
    /\ statsRef' = IF statsRef = "none" THEN "none" ELSE "detached"
    /\ UNCHANGED <<options, now>>

\* close()
Close ==
    /\ Idle
    /\ checkTimeout' = _killCheckPeriod(checkTimeout)
    /\ ret' = [NoCall EXCEPT !.op = "close", !.status = "return"]
    /\ events' = <<>>
    /\ UNCHANGED <<data, stats, options, now, lastSet, statsRef>>

\* The timer runs its callback, this._checkData as a bare function: `this` is the
\* timer, which has no `data` (the for-in loop runs over nothing) and no
\* `options`, so reading this.options.checkperiod throws a TypeError out of the
\* callback.  The cache is not touched and no new timer is set.
Timeout ==
    /\ Idle
    /\ checkTimeout.pending
    /\ now >= checkTimeout.due
    /\ checkTimeout' = [checkTimeout EXCEPT !.pending = FALSE]
    /\ ret' = [op |-> "_checkData", status |-> "throw", val |-> Undefined,
               err |-> TypeError]
    /\ events' = <<>>
    /\ UNCHANGED <<data, stats, options, now, lastSet, statsRef>>

\* getStats(): this.stats itself is returned
GetStats ==
    /\ Idle
    /\ ret' = [NoCall EXCEPT !.op = "getStats", !.status = "return", !.val = stats]
    /\ statsRef' = "live"
    /\ events' = <<>>
    /\ UNCHANGED <<data, stats, options, checkTimeout, now, lastSet>>

\* the caller assigns n to the counter `name` of the record getStats() returned:
\* an assignment to this.stats while the record is this.stats
Assign(name, n) ==
    LET assigned == [stats EXCEPT ![name] = IF name = "ksize" THEN Finite(n) ELSE n] IN
    /\ Idle
    /\ statsRef # "none"
    /\ stats' = IF statsRef = "live" THEN assigned ELSE stats
    /\ WithinBounds([data |-> data, stats |-> stats', events |-> <<>>])
    /\ UNCHANGED <<data, options, checkTimeout, now, ret, events, lastSet, statsRef>>

\* the caller has seen how the call ended
Done ==
    /\ ~Idle
    /\ ret' = NoCall
    /\ events' = <<>>
    /\ UNCHANGED <<data, stats, options, checkTimeout, now, lastSet, statsRef>>

\* time passes between calls
Tick ==
    /\ Idle
    /\ now < Epoch + (MaxTicks * TickMs)
    /\ now' = now + TickMs
    /\ UNCHANGED <<data, stats, options, checkTimeout, ret, events, lastSet, statsRef>>

\* every call, with its arguments drawn from K (keys), V (values), T (ttl
\* arguments) and L (arrays of keys)
Calls(K, V, T, L) ==
    \/ \E key \in K, val \in V, arg \in T : Set(key, val, arg)
    \/ \E key \in K, errorOnMissing \in BOOLEAN : Get(key, errorOnMissing)
    \/ \E keys \in L : MGet(keys)
    \/ MGetNoArray
    \/ \E keys \in L : Del(keys)
    \/ \E key \in K, arg \in T \cup {NoNumber, Number(0 - 1)} : Ttl(key, arg)
    \/ \E key \in K : GetTtl(key)
    \/ \E startPeriod \in BOOLEAN : FlushAll(startPeriod)
    \/ Close
    \/ Done

-----------------------------------------------------------------------------
(***************************************************************************)
(* Spec: caches built with the default options but no sweep timer          *)
(* (checkperiod 0), with and without errorOnMissing, used with string and  *)
(* integer keys and keys of other types, while time passes.                *)
(***************************************************************************)

ab == StrKey("ab")
one == NumKey(1)

Keys == {ab, one, StrKey("1"), NullKey, TrueKey}
Values == {Str("x"), Undefined}
Ttls == {NoNumber, Number(0), Number(1)}
KeyLists == {<<ab>>, <<ab, one>>, <<ab, ab>>, <<ab, NullKey, one>>}
NoSweep == [DefaultOptions EXCEPT !.checkperiod = 0]
OptionSets == {NoSweep, [NoSweep EXCEPT !.errorOnMissing = TRUE]}

Init == InitOver(OptionSets)
Next == Calls(Keys, Values, Ttls, KeyLists) \/ Tick
Spec == Init /\ [][Next]_vars

(***************************************************************************)
(* AnyKeySpec: the default cache used with any string as a key, one that   *)
(* names a member of Object.prototype included.  Entries past their time   *)
(* come from a negative ttl; the clock stands still.                       *)
(***************************************************************************)

ctor == StrKey("constructor")

AnyKeys == {ab, ctor, NullKey}
AnyValues == {Str("x")}
AnyTtls == {Number(0), Number(0 - 1)}
AnyKeyLists == {<<ctor>>, <<ab, ctor>>, <<ctor, ctor>>}

AnyKeyInit == InitOver({NoSweep})
AnyKeyNext == Calls(AnyKeys, AnyValues, AnyTtls, AnyKeyLists)
AnyKeySpec == AnyKeyInit /\ [][AnyKeyNext]_vars

(***************************************************************************)
(* SweepSpec: a cache with checkperiod 1, so that the sweep timer comes    *)
(* due within the time modelled.                                           *)
(***************************************************************************)

SweepKeys == {ab}
SweepValues == {Str("x")}
SweepTtls == {Number(0), Number(1)}
SweepKeyLists == {<<ab>>}

SweepInit == InitOver({[DefaultOptions EXCEPT !.checkperiod = 1]})
SweepNext == Calls(SweepKeys, SweepValues, SweepTtls, SweepKeyLists) \/ Timeout \/ Tick
SweepSpec == SweepInit /\ [][SweepNext]_vars

(***************************************************************************)
(* SizeSpec: caches with and without forceString, holding values of every  *)
(* category the size estimation tells apart; the clock stands still.       *)
(***************************************************************************)

SizeKeys == {ab, one, ctor}
SizeValues == {Str("x"), Num7, Arr12, ObjA1, True, Null, Undefined}
SizeTtls == {NoNumber}
SizeKeyLists == {<<ab>>, <<ab, ctor>>}

SizeInit == InitOver({NoSweep, [NoSweep EXCEPT !.forceString = TRUE]})
SizeNext == Calls(SizeKeys, SizeValues, SizeTtls, SizeKeyLists)
SizeSpec == SizeInit /\ [][SizeNext]_vars

(***************************************************************************)
(* KeySpec: the default cache called with keys of every type.              *)
(***************************************************************************)

FalseKey == [type |-> "boolean", s |-> "false", n |-> 0]

KeyKeys == {ab, NumKey(0), StrKey(""), NullKey, UndefinedKey, TrueKey, FalseKey, ObjectKey}
KeyValues == {Str("x")}
KeyTtls == {Number(0), Number(1)}
KeyKeyLists == {<<ab>>, <<ab, TrueKey>>}

KeyInit == InitOver({NoSweep})
KeyNext == Calls(KeyKeys, KeyValues, KeyTtls, KeyKeyLists) \/ Tick
KeySpec == KeyInit /\ [][KeyNext]_vars

-----------------------------------------------------------------------------
(* What the claims speak of.                                               *)

\* the keys of K that are strings or integers
ValidOf(K) == {key \in K : key.type \in {"string", "number"}}
\* the arrays of L that hold only such keys
ValidListsOf(L) == {keys \in L : \A i \in 1..Len(keys) : keys[i].type \in {"string", "number"}}

\* the map holds an entry under property p / one past its time / one in its time
Stored(p) == p \in DOMAIN data
Stale(p) == Stored(p) /\ data[p].t # 0 /\ data[p].t < now
Live(p) == Stored(p) /\ ~Stale(p)

\* two values are equal, null and undefined being the one null-equivalent
SameValue(a, b) == a = b \/ (IsNullish(a) /\ IsNullish(b))

\* the call reported the key missing: undefined, or NotFound under errorOnMissing
Missing(r) ==
    \/ r.status = "return" /\ r.val = Undefined
    \/ r.status = "throw" /\ r.err.code = "ENOTFOUND"

\* how many notifications `name` for property p are in evs / all of them carry v
Emitted(evs, name, p) ==
    Cardinality({i \in 1..Len(evs) : evs[i].name = name /\ ToPropertyKey(evs[i].key) = p})
Carry(evs, name, p, v) ==
    \A i \in 1..Len(evs) :
        (evs[i].name = name /\ ToPropertyKey(evs[i].key) = p) => SameValue(evs[i].value, v)

\* the step is the call named, with these arguments
GetStep(key, errorOnMissing) == ret'.op = "get" /\ Get(key, errorOnMissing)
SetStep(key, val, arg) == ret'.op = "set" /\ Set(key, val, arg)
MGetStep(keys) == ret'.op = "mget" /\ MGet(keys)
DelStep(keys) == ret'.op = "del" /\ Del(keys)
TtlStep(key, arg) == ret'.op = "ttl" /\ Ttl(key, arg)
GetTtlStep(key) == ret'.op = "getTtl" /\ GetTtl(key)

-----------------------------------------------------------------------------
(* C1: after set(k, v, ttl) with ttl >= 0 and no set, del, ttl or flushAll *)
(* on k since, a get(k) before ttl seconds have passed returns v, the      *)
(* first get(k) after they have passed returns missing and causes exactly  *)
(* one `expired` notification for k carrying v, and later get(k) calls     *)
(* cause none.                                                             *)

FirstReadNotifies(h, p) ==
    /\ (Expired(h, p) /\ ~h[p].read) =>
            Emitted(events', "expired", p) = 1 /\ Carry(events', "expired", p, h[p].v)
    /\ (Expired(h, p) /\ h[p].read) => Emitted(events', "expired", p) = 0

-----------------------------------------------------------------------------
(* C2: after any sequence of completed operations with valid keys,         *)
(* stats.keys is the number of entries stored in the map.                  *)

\* C2 as claimed, of every key that is a string or an integer
C2_KeysIsEntryCount == stats.keys = Cardinality(DOMAIN data)

-----------------------------------------------------------------------------
(* C3: whenever get(k) or an mget listing k returns a value for k, or      *)
(* getTtl(k) returns a timestamp, or ttl(k, n) returns true, the entry for *)
(* k was not past its expiry time when the call was made.                  *)

ReadsFresh(K, T, L) ==
    /\ \A key \in ValidOf(K), errorOnMissing \in BOOLEAN :
        (GetStep(key, errorOnMissing) /\ ret'.status = "return" /\ ret'.val # Undefined)
            => ~Stale(ToPropertyKey(key))
    /\ \A keys \in ValidListsOf(L) :
        (MGetStep(keys) /\ ret'.status = "return")
            => \A p \in DOMAIN ret'.val.map : ~Stale(p)
    /\ \A key \in ValidOf(K) :
        (GetTtlStep(key) /\ ret'.status = "return" /\ ret'.val.def)
            => ~Stale(ToPropertyKey(key))
    /\ \A key \in ValidOf(K), arg \in T \cup {NoNumber, Number(0 - 1)} :
        (TtlStep(key, arg) /\ ret'.status = "return" /\ ret'.val = True)
            => ~Stale(ToPropertyKey(key))

\* C3 as claimed, of every key that is a string or an integer
C3_ReadsFresh == [][ReadsFresh(AnyKeys, AnyTtls, AnyKeyLists)]_vars

-----------------------------------------------------------------------------
(* C4: with checkperiod > 0 and no close(), every run of the timer applies *)
(* the freshness check to every stored entry, so that none past its expiry *)
(* time is left in the map, and sets the timer for the next run.           *)

C4_SweepEvictsAndRecurs ==
    [][Timeout =>
        /\ \A p \in DOMAIN data' : data'[p].t = 0 \/ data'[p].t >= now'
        /\ checkTimeout'.pending
      ]_vars

-----------------------------------------------------------------------------
(* C5: after any sequence of completed operations with string and integer  *)
(* keys, stats.ksize is the sum, over the stored entries, of the length of *)
(* the key's string representation.                                        *)

RECURSIVE KeyLengths(_)
KeyLengths(props) ==
    IF props = {} THEN 0
    ELSE LET p == CHOOSE q \in props : TRUE IN Len(p) + KeyLengths(props \ {p})

C5_KsizeIsSum == stats.ksize = Finite(KeyLengths(DOMAIN data))

-----------------------------------------------------------------------------
(* C6: after any sequence of completed operations, stats.vsize is the sum, *)
(* over the stored entries, of the estimated size of the stored value: its *)
(* length for a string, 8 for a number, arrayValueSize * length for an     *)
(* array, objectValueSize * fieldCount for an object, 0 otherwise; and     *)
(* set(1, {a:1}) on an empty cache raises vsize by objectValueSize.        *)

EstimatedSize(value) ==
    IF value.type = "string" THEN Len(value.repr)
    ELSE IF value.type = "number" THEN 8
    ELSE IF value.type = "array" THEN options.arrayValueSize * value.n
    ELSE IF value.type = "object" THEN options.objectValueSize * value.n
    ELSE 0

RECURSIVE ValueSizes(_, _)
ValueSizes(d, props) ==
    IF props = {} THEN 0
    ELSE LET p == CHOOSE q \in props : TRUE IN
         EstimatedSize(d[p].v) + ValueSizes(d, props \ {p})

C6_VsizeIsSum == stats.vsize = ValueSizes(data, DOMAIN data)

-----------------------------------------------------------------------------
(* C7: get, set, ttl and getTtl called with a key that is neither a string *)
(* nor an integer (null, undefined, a boolean, an object) fail with        *)
(* EKEYTYPE and leave the map and every statistics counter as they were.   *)

InvalidOf(K) == K \ ValidOf(K)
Untouched == data' = data /\ stats' = stats
FailsKeyType(key) ==
    ret'.status = "throw" /\ ret'.err.code = "EKEYTYPE" /\ ret'.err.type = typeof(key)
ReturnsPlainly(val) ==
    ret'.status = "return" /\ ret'.val = val /\ ret'.err = NoError

\* C7 as claimed: each of the four calls fails
C7_Original ==
    [][\A key \in InvalidOf(KeyKeys) :
        /\ \A errorOnMissing \in BOOLEAN :
            GetStep(key, errorOnMissing) => (FailsKeyType(key) /\ Untouched)
        /\ \A val \in KeyValues, arg \in KeyTtls :
            SetStep(key, val, arg) => (FailsKeyType(key) /\ Untouched)
        /\ \A arg \in KeyTtls \cup {NoNumber, Number(0 - 1)} :
            TtlStep(key, arg) => (FailsKeyType(key) /\ Untouched)
        /\ GetTtlStep(key) => (FailsKeyType(key) /\ Untouched)
      ]_vars

\* C7 as amended: get and set fail for every such key; ttl and getTtl fail for
\* those that are truthy (true, an object) and, with no error, return false and
\* undefined for those that are falsy (null, undefined, false); none of the calls
\* changes the map or a counter
C7_FalsyKeysSkipTheCheck ==
    [][\A key \in InvalidOf(KeyKeys) :
        /\ \A errorOnMissing \in BOOLEAN :
            GetStep(key, errorOnMissing) => (FailsKeyType(key) /\ Untouched)
        /\ \A val \in KeyValues, arg \in KeyTtls :
            SetStep(key, val, arg) => (FailsKeyType(key) /\ Untouched)
        /\ \A arg \in KeyTtls \cup {NoNumber, Number(0 - 1)} :
            TtlStep(key, arg) =>
                /\ IF Truthy(key) THEN FailsKeyType(key) ELSE ReturnsPlainly(False)
                /\ Untouched
        /\ GetTtlStep(key) =>
                /\ IF Truthy(key) THEN FailsKeyType(key) ELSE ReturnsPlainly(NoNumber)
                /\ Untouched
      ]_vars

\* a call with a boolean key has just failed, on a cache that holds an entry
C7_Witness ==
    /\ ret.op \in {"get", "set", "ttl", "getTtl"}
    /\ ret.status = "throw"
    /\ ret.err = EKEYTYPE(TrueKey)
    /\ DOMAIN data # {}

-----------------------------------------------------------------------------
(* C8: a get(k) with a valid key adds 1 to hits and returns the value when *)
(* k is present and fresh, and adds 1 to misses otherwise, leaving the     *)
(* other counter alone; on a miss it fails with NotFound carrying k when   *)
(* errorOnMissing (the option or the argument) is true and returns the     *)
(* missing sentinel with no error when not.                                *)

GetCounts(K) ==
    \A key \in ValidOf(K), errorOnMissing \in BOOLEAN :
        LET p == ToPropertyKey(key) IN
        GetStep(key, errorOnMissing) =>
            IF Live(p)
            THEN /\ ret'.status = "return"
                 /\ SameValue(ret'.val, data[p].v)
                 /\ stats'.hits = stats.hits + 1
                 /\ stats'.misses = stats.misses
            ELSE /\ stats'.misses = stats.misses + 1
                 /\ stats'.hits = stats.hits
                 /\ IF options.errorOnMissing \/ errorOnMissing
                    THEN ret'.status = "throw" /\ ret'.err = ENOTFOUND(key)
                    ELSE ReturnsPlainly(Undefined)

\* C8 as claimed, of every key that is a string or an integer
C8_GetCounts == [][GetCounts(AnyKeys)]_vars

-----------------------------------------------------------------------------
(* C9: mget(keys) with valid keys returns a mapping whose keys are the     *)
(* listed keys that are present and fresh, each with its stored value,     *)
(* adds to hits the number of listed occurrences that are present and      *)
(* fresh and to misses the number that are not, and never fails with       *)
(* NotFound.                                                               *)

MGetCounts(L) ==
    \A keys \in ValidListsOf(L) :
        MGetStep(keys) =>
            LET live == {i \in 1..Len(keys) : Live(ToPropertyKey(keys[i]))} IN
            /\ ret'.status = "return"
            /\ ret'.err = NoError
            /\ DOMAIN ret'.val.map = {ToPropertyKey(keys[i]) : i \in live}
            /\ \A p \in DOMAIN ret'.val.map : SameValue(ret'.val.map[p], data[p].v)
            /\ stats'.hits = stats.hits + Cardinality(live)
            /\ stats'.misses = stats.misses + (Len(keys) - Cardinality(live))

\* C9 as claimed, of every key that is a string or an integer
C9_MGetCounts == [][MGetCounts(AnyKeyLists)]_vars

-----------------------------------------------------------------------------
(* C10: del with valid keys returns the number of listed keys that were in *)
(* the map when processed, removes each of them, takes 1 off stats.keys    *)
(* and emits one `del` per removed key, and adds 1 to misses per listed    *)
(* key that was absent; a get(k) right after del(k) returns missing.       *)

\* the occurrences in keys that find their key in the map: the first of each
DelHits(keys) ==
    {i \in 1..Len(keys) :
        /\ Stored(ToPropertyKey(keys[i]))
        /\ \A j \in 1..(i - 1) : ToPropertyKey(keys[j]) # ToPropertyKey(keys[i])}

DelCounts(L) ==
    \A keys \in ValidListsOf(L) :
        DelStep(keys) =>
            LET n == Cardinality(DelHits(keys))
                removed == {ToPropertyKey(keys[i]) : i \in DelHits(keys)}
                after == [data |-> data', stats |-> stats', events |-> <<>>]
            IN
            /\ ret'.status = "return"
            /\ ret'.val = Number(n)
            /\ DOMAIN data' = DOMAIN data \ removed
            /\ stats'.keys = stats.keys - n
            /\ Len(events') = n
            /\ \A p \in removed : Emitted(events', "del", p) = 1
            /\ stats'.misses = stats.misses + (Len(keys) - n)
            /\ \A i \in 1..Len(keys) : get(after, keys[i], FALSE).val = Undefined

\* C10 as claimed, of every key that is a string or an integer
C10_DelCounts == [][DelCounts(AnyKeyLists)]_vars

-----------------------------------------------------------------------------
(* The same statements for caches whose keys are not names of properties   *)
(* that every object inherits (Spec, SizeSpec with forceString off).       *)

\* C2, for keys that no object inherits
C2_PlainKeys == stats.keys = Cardinality(DOMAIN data)
\* C3, for keys that no object inherits
C3_PlainKeys == [][ReadsFresh(Keys, Ttls, KeyLists)]_vars
\* C5, until an integer key is written or deleted
C5_StringKeys == ~stats.ksize.nan => stats.ksize.val = KeyLengths(DOMAIN data)
\* C6, without forceString
C6_NoForceString == ~options.forceString => stats.vsize = ValueSizes(data, DOMAIN data)
\* C8, for keys that no object inherits
C8_PlainKeys == [][GetCounts(Keys)]_vars
\* C9, for keys that no object inherits
C9_PlainKeys == [][MGetCounts(KeyLists)]_vars
\* C10, for keys that no object inherits
C10_PlainKeys == [][DelCounts(KeyLists)]_vars

-----------------------------------------------------------------------------
(* C11: ttl(k, -1) and del(k), called in the same state (k absent, present *)
(* and fresh, or present and stale), leave the same map, with k removed,   *)
(* and each returns a truthy result exactly when k was in the map.         *)

TtlMinusOneIsDel(key) ==
    LET p == ToPropertyKey(key)
        byTtl == ttl(Cache, key, Number(0 - 1))
        byDel == del(Cache, <<key>>)
    IN
    /\ byTtl.status = "return"
    /\ byDel.status = "return"
    /\ byTtl.c.data = byDel.c.data
    /\ p \notin DOMAIN byTtl.c.data
    /\ (byTtl.val = True) <=> Stored(p)
    /\ (byDel.val.n # 0) <=> Stored(p)

\* C11 as claimed, of every key that is a string or an integer
C11_TtlMinusOneIsDel == \A key \in ValidOf(KeyKeys) : TtlMinusOneIsDel(key)

\* C11, for truthy keys: the same map with k removed; the same answer unless k is stale
C11_TruthyKeys ==
    \A key \in {k \in ValidOf(KeyKeys) : Truthy(k)} :
        LET p == ToPropertyKey(key)
            byTtl == ttl(Cache, key, Number(0 - 1))
            byDel == del(Cache, <<key>>)
        IN
        /\ byTtl.c.data = byDel.c.data
        /\ p \notin DOMAIN byTtl.c.data
        /\ (byDel.val.n # 0) <=> Stored(p)
        /\ (byTtl.val = True) <=> Live(p)

-----------------------------------------------------------------------------
(***************************************************************************)
(* StdTtlSpec: caches built with stdTTL 0 and with stdTTL 2 (no sweep      *)
(* timer), used with a string key and the integer key 0, with the ttl      *)
(* given as 0, as 1 and not at all, while time passes.                     *)
(***************************************************************************)

zero == NumKey(0)

StdTtlKeys == {ab, zero}
StdTtlValues == {Str("x")}
StdTtlTtls == {NoNumber, Number(0), Number(1)}
StdTtlKeyLists == {<<ab>>, <<ab, zero>>}

StdTtlInit == InitOver({NoSweep, [NoSweep EXCEPT !.stdTTL = 2]})
StdTtlNext == Calls(StdTtlKeys, StdTtlValues, StdTtlTtls, StdTtlKeyLists) \/ Tick
StdTtlSpec == StdTtlInit /\ [][StdTtlNext]_vars

-----------------------------------------------------------------------------
(* C12: for a present, fresh key k and newTtl >= 0, ttl(k, newTtl) returns *)
(* true, keeps the stored value and all statistics, and sets the entry's   *)
(* expiry time from newTtl itself: 0 when newTtl = 0, now + newTtl * 1000  *)
(* when newTtl > 0, whatever stdTTL is; stdTTL is used only when newTtl is *)
(* omitted.                                                                *)

\* ttl( key, arg ) on the live entry of key sets the expiry time to t and no more
Redefines(key, arg, t) ==
    LET p == ToPropertyKey(key) IN
    (TtlStep(key, arg) /\ Live(p)) =>
        /\ ret'.status = "return"
        /\ ret'.val = True
        /\ stats' = stats
        /\ DOMAIN data' = DOMAIN data
        /\ \A q \in DOMAIN data \ {p} : data'[q] = data[q]
        /\ data'[p].v = data[p].v
        /\ data'[p].t = t

\* C12 as claimed, of every key that is a string or an integer
C12_TtlFromArgument ==
    [][\A key \in ValidOf(StdTtlKeys) :
        /\ Redefines(key, Number(0), 0)
        /\ Redefines(key, Number(1), now + 1000)
      ]_vars

\* C12, for truthy keys: the ttl given when it is not 0, stdTTL when it is 0 or omitted
C12_ZeroIsStdTtl ==
    [][\A key \in {k \in ValidOf(StdTtlKeys) : Truthy(k)} :
        LET std == IF options.stdTTL = 0 THEN 0 ELSE now + (options.stdTTL * 1000) IN
        /\ Redefines(key, Number(0), std)
        /\ Redefines(key, NoNumber, std)
        /\ Redefines(key, Number(1), now + 1000)
      ]_vars

-----------------------------------------------------------------------------
(* C13: for every valid key k, the empty string and 0 included, getTtl(k)  *)
(* returns the entry's expiry time (0 when it never expires) when k is     *)
(* present and fresh, and the missing sentinel when k is absent or stale.  *)

GetTtlReads(key) ==
    LET p == ToPropertyKey(key) IN
    GetTtlStep(key) =>
        /\ ret'.status = "return"
        /\ ret'.val = IF Live(p) THEN Number(data[p].t) ELSE NoNumber

\* C13 as claimed, of every key that is a string or an integer
C13_GetTtlReads == [][\A key \in ValidOf(KeyKeys) : GetTtlReads(key)]_vars

\* C13, for truthy keys
C13_TruthyKeys == [][\A key \in {k \in ValidOf(KeyKeys) : Truthy(k)} : GetTtlReads(key)]_vars

-----------------------------------------------------------------------------
(* C14: a getTtl call, whatever the key (present and fresh, present and    *)
(* stale, absent), leaves hits, misses, keys, ksize and vsize unchanged.   *)

\* the keys drawn by Spec and by KeySpec
ReadKeys == Keys \cup KeyKeys

\* C14 as claimed
C14_Original == [][\A key \in ReadKeys : GetTtlStep(key) => stats' = stats]_vars

\* C14 as amended: hits and misses never change; keys, ksize and vsize change
\* only when the key is truthy and its entry is stale, and then as del( key )
\* changes them
C14_EvictionCounts ==
    [][\A key \in ReadKeys :
        GetTtlStep(key) =>
            /\ stats'.hits = stats.hits
            /\ stats'.misses = stats.misses
            /\ IF ~_isInvalidKey(key) /\ Truthy(key) /\ Stale(ToPropertyKey(key))
               THEN /\ stats'.keys = stats.keys - 1
                    /\ stats'.keys = del(Cache, <<key>>).c.stats.keys
                    /\ stats'.ksize = del(Cache, <<key>>).c.stats.ksize
                    /\ stats'.vsize = del(Cache, <<key>>).c.stats.vsize
               ELSE stats' = stats
      ]_vars

\* a getTtl has just evicted a stale entry
C14_Witness ==
    /\ ret.op = "getTtl"
    /\ Len(events) = 2
    /\ events[2].name = "expired"
    /\ stats.keys = Cardinality(DOMAIN data)

-----------------------------------------------------------------------------
(* C15: after flushAll() the map is empty and hits, misses, keys, ksize    *)
(* and vsize are 0, one `flush` notification has been emitted and, with    *)
(* checkperiod > 0, one sweep is scheduled; a second flushAll() right      *)
(* after it leaves the same map, statistics and schedule.                  *)

\* the cache and the timer that a flushAll() called in the next state would leave
FlushedAgain == _checkData(EmptyCache, _killCheckPeriod(checkTimeout'), TRUE)

C15_FlushAllIdempotent ==
    [][FlushAll(TRUE) =>
        /\ data' = <<>>
        /\ stats' = [hits |-> 0, misses |-> 0, keys |-> 0, ksize |-> Finite(0), vsize |-> 0]
        /\ Len(events') = 1
        /\ events'[1].name = "flush"
        /\ checkTimeout'.pending <=> (options.checkperiod > 0)
        /\ checkTimeout'.pending => checkTimeout'.due = now + (options.checkperiod * 1000)
        /\ FlushedAgain.c.data = data'
        /\ FlushedAgain.c.stats = stats'
        /\ FlushedAgain.timeout = checkTimeout'
      ]_vars

\* a flushAll() has just emptied the cache and set the timer anew, after time passed
C15_Witness ==
    /\ ret.op = "flushAll"
    /\ Len(events) = 1
    /\ events[1].name = "flush"
    /\ data = <<>>
    /\ now > Epoch
    /\ checkTimeout.pending
    /\ checkTimeout.due = now + (options.checkperiod * 1000)

-----------------------------------------------------------------------------
(***************************************************************************)
(* StatsSpec: a cache built with the default options but no sweep timer,   *)
(* used with one string key, whose caller also asks for the statistics     *)
(* and assigns to the counters of the record it was given.                 *)
(***************************************************************************)

Counters == {"hits", "misses", "keys", "ksize", "vsize"}
Assigned == 0..1

StatsInit == InitOver({NoSweep})
StatsNext ==
    \/ Calls({ab}, {Str("x")}, {Number(0)}, {<<ab>>})
    \/ GetStats
    \/ \E name \in Counters, n \in Assigned : Assign(name, n)
StatsSpec == StatsInit /\ [][StatsNext]_vars

-----------------------------------------------------------------------------
(* C16: getStats() returns a snapshot: when the caller changes a counter   *)
(* of the record it returned, the statistics of the cache stay as they     *)
(* were, and a later getStats() reports them.                              *)

C16_Snapshot ==
    [][\A name \in Counters, n \in Assigned : Assign(name, n) => stats' = stats]_vars

\* C16, for a record that a flushAll() has since replaced
C16_Detached ==
    [][\A name \in Counters, n \in Assigned :
        (Assign(name, n) /\ statsRef = "detached") => stats' = stats]_vars

-----------------------------------------------------------------------------
(* C17: keys are compared by exact value: an integer key and the string of *)
(* its digits are two keys, so that a set or a del on one of them changes  *)
(* neither what a get of the other returns nor whether it is an entry:     *)
(* after set(1, a) and set("1", b), get(1) returns a and stats.keys is 2,  *)
(* and del("1") leaves the entry of 1.                                     *)

\* what get( key ) would return after this step is what it would return before it
GetUnchanged(key) ==
    get([data |-> data', stats |-> stats', events |-> <<>>], key, FALSE).val
        = get(Cache, key, FALSE).val

\* writes and deletions leave the keys `same` does not relate to their key alone
KeysApart(same(_, _)) ==
    \A key \in ValidOf(Keys), other \in ValidOf(Keys) :
        ~same(key, other) =>
            /\ \A val \in Values, arg \in Ttls :
                SetStep(key, val, arg) => GetUnchanged(other)
            /\ \A keys \in ValidListsOf(KeyLists) :
                (DelStep(keys) /\ \A i \in 1..Len(keys) : ~same(keys[i], other))
                    => GetUnchanged(other)

ExactlyEqual(key, other) == key = other
SameProperty(key, other) == ToPropertyKey(key) = ToPropertyKey(other)

\* C17 as claimed
C17_ExactKeys == [][KeysApart(ExactlyEqual)]_vars

\* C17, for keys that differ as property names
C17_PropertyNames == [][KeysApart(SameProperty)]_vars

-----------------------------------------------------------------------------
(* C18: close() cancels the scheduled sweep and leaves the map and the     *)
(* statistics as they are; a second close() changes nothing; and once the  *)
(* sweep is cancelled no run of it occurs until a flushAll() has set the   *)
(* timer again.                                                            *)

C18_CloseCancels ==
    [][/\ Close =>
            /\ ~checkTimeout'.pending
            /\ data' = data
            /\ stats' = stats
            /\ _killCheckPeriod(checkTimeout') = checkTimeout'
       /\ (~checkTimeout.pending /\ checkTimeout'.pending) => FlushAll(TRUE)
       /\ Timeout => checkTimeout.pending
      ]_vars

\* a close() has just cancelled a sweep that was scheduled, on a cache with an entry
C18_Witness ==
    /\ ret.op = "close"
    /\ checkTimeout.handle
    /\ ~checkTimeout.pending
    /\ now < checkTimeout.due
    /\ DOMAIN data # {}

-----------------------------------------------------------------------------
(* C19: a del([k1..kn]) whose first invalid key is at position i fails     *)
(* with EKEYTYPE; the keys after position i are not processed (those in    *)
(* the map stay); and what was done for the keys before i stays done:      *)
(* entries removed, keys, ksize and vsize decremented, misses incremented, *)
(* `del` notifications emitted.                                            *)

\* the position of the first invalid key of keys
FirstInvalid(keys) ==
    CHOOSE i \in 1..Len(keys) :
        _isInvalidKey(keys[i]) /\ \A j \in 1..(i - 1) : ~_isInvalidKey(keys[j])

DelAborts(keys) ==
    LET i == FirstInvalid(keys)
        before == SubSeq(keys, 1, i - 1)
        removed == {ToPropertyKey(before[j]) : j \in DelHits(before)}
        n == Cardinality(removed)
        byNumber == \E j \in DelHits(before) : before[j].type = "number"
    IN
    DelStep(keys) =>
        /\ ret'.status = "throw"
        /\ ret'.err = EKEYTYPE(keys[i])
        /\ DOMAIN data' = DOMAIN data \ removed
        /\ \A q \in DOMAIN data' : data'[q] = data[q]
        /\ stats'.keys = stats.keys - n
        /\ stats'.vsize = stats.vsize - ValueSizes(data, removed)
        /\ IF stats.ksize.nan \/ byNumber THEN stats'.ksize.nan
           ELSE stats'.ksize = Finite(stats.ksize.val - KeyLengths(removed))
        /\ stats'.misses = stats.misses + ((i - 1) - n)
        /\ stats'.hits = stats.hits
        /\ Len(events') = n
        /\ \A p \in removed : Emitted(events', "del", p) = 1

C19_BatchDelAborts ==
    [][\A keys \in KeyLists \ ValidListsOf(KeyLists) : DelAborts(keys)]_vars

\* a del has just failed on its second key with the first removed and the third,
\* present, left in the map
C19_Witness ==
    /\ ret.op = "del"
    /\ ret.status = "throw"
    /\ ret.err.code = "EKEYTYPE"
    /\ Len(events) = 1
    /\ events[1].name = "del"
    /\ "1" \in DOMAIN data

-----------------------------------------------------------------------------
(* C20: when the freshness check evicts the stale entry of k (in a get,    *)
(* mget, ttl or getTtl, or in a sweep), one `del` and then one `expired`   *)
(* notification are emitted for k, and k is out of the map and out of      *)
(* stats.keys when each is delivered; a del(k) emits `del` and never       *)
(* `expired`.                                                              *)

\* the positions in evs of the notifications `name` for property p
Positions(evs, name, p) ==
    {i \in 1..Len(evs) : evs[i].name = name /\ ToPropertyKey(evs[i].key) = p}

\* how many `del` notifications evs holds up to position i
DelsUpTo(evs, i) == Cardinality({j \in 1..i : evs[j].name = "del"})

\* the notification at position i of evs found its key out of the map, and
\* stats.keys less by the removals so far
DeliveredAfterRemoval(evs, i) ==
    ~evs[i].held /\ evs[i].keys = stats.keys - DelsUpTo(evs, i)

C20_DelThenExpired ==
    [][/\ ret'.op \in {"get", "mget", "ttl", "getTtl"} =>
            \A p \in DOMAIN data :
                IF Stale(p) /\ p \notin DOMAIN data'
                THEN /\ Cardinality(Positions(events', "del", p)) = 1
                     /\ Cardinality(Positions(events', "expired", p)) = 1
                     /\ \A i \in Positions(events', "del", p) :
                            /\ Positions(events', "expired", p) = {i + 1}
                            /\ DeliveredAfterRemoval(events', i)
                            /\ DeliveredAfterRemoval(events', i + 1)
                ELSE Positions(events', "expired", p) = {}
       /\ ret'.op \in {"flushAll", "_checkData"} =>
            \A i \in 1..Len(events') : events'[i].name \notin {"del", "expired"}
       /\ ret'.op = "del" =>
            /\ \A i \in 1..Len(events') :
                events'[i].name = "del" /\ DeliveredAfterRemoval(events', i)
            /\ \A p \in DOMAIN data \ DOMAIN data' :
                Positions(events', "del", p) # {}
      ]_vars

\* a get has just evicted a stale entry
C20_Witness ==
    /\ ret.op = "get"
    /\ Len(events) = 2
    /\ events[1].name = "del"
    /\ events[2].name = "expired"
    /\ ~events[2].held

====
